---- MODULE Spec2Model ----
(***************************************************************************)
(* State-machine model of the math-problem generator front end:            *)
(*   src/App.tsx                       the React component and its handlers *)
(*   src/unnamed/part_002              the Supabase service                 *)
(*   src/services/googleDriveService.ts the Google Drive service            *)
(*   src/services/mongoDbService.ts    the MongoDB relay service            *)
(*                                                                         *)
(* A handler that awaits is split at its awaits: the part before an await  *)
(* is one action, each way the awaited promise can settle is another.      *)
(* JavaScript is single threaded, so the code between two awaits is        *)
(* atomic.  A handler bound to a button is guarded by the condition under  *)
(* which App.tsx renders that button enabled.  The exported save and      *)
(* sign-out functions of the service modules are also modelled as entry   *)
(* points of their own (the ...Call actions): they carry their own guards  *)
(* and can be called by any importer.                                      *)
(*                                                                         *)
(* An error state holds null, written << >>, or the message of an Error,   *)
(* written as the tuple of the parts the source's template string joins:   *)
(* its fixed text as a short ASCII tag (the source's texts are Korean      *)
(* sentences), then the interpolated values.                               *)
(***************************************************************************)
EXTENDS Integers, Sequences, FiniteSets, TLC

\* ------------------------------------------------------------------ bounds
\* Largest batch the user asks for (the input accepts 1..10, App.tsx:626).
MaxProblems == 2
\* Consent popups / revoke requests that may be outstanding at one time.
MaxPending == 2
\* Export runs in one behaviour.
MaxExports == 3
\* Pieces of markup in a string handed to convertLatexToPlainText.
MaxLexemes == 4

\* ------------------------------------------------------------ text inputs
\* Strings whose shape the code inspects are sequences of characters.
UrlEmpty == << >>
UrlBare == <<"d", "b">>
UrlFtp == <<"f", "t", "p", ":", "/", "/", "h">>
UrlHttpNoHost == <<"h", "t", "t", "p", ":", "/", "/">>
UrlHttp == <<"h", "t", "t", "p", ":", "/", "/", "h">>
UrlHttps == <<"h", "t", "t", "p", "s", ":", "/", "/", "h">>
UrlHttpPath == <<"h", "t", "t", "p", ":", "/", "/", "h", "/", "v", "1">>
UrlHttpPathSlash == <<"h", "t", "t", "p", ":", "/", "/", "h", "/", "v", "1", "/">>
PrefixHttp == <<"h", "t", "t", "p", ":", "/", "/">>
PrefixHttps == <<"h", "t", "t", "p", "s", ":", "/", "/">>

\* What the user may have typed in a URL field when pressing connect.
UrlInputs == {UrlEmpty, UrlBare, UrlFtp, UrlHttpNoHost, UrlHttp, UrlHttps}
\* The backend server URL field also takes URLs with a path prefix.
MongoUrlInputs == UrlInputs \cup {UrlHttpPath, UrlHttpPathSlash}
KeyInputs == {"", "anon-key"}
ClientIdInputs == {"", "client-id"}

Letters == {"a", "b", "d", "f", "h", "p", "s", "t"}
SpecialSchemes == {<<"h", "t", "t", "p">>, <<"h", "t", "t", "p", "s">>, <<"f", "t", "p">>}

\* String.prototype.startsWith
StartsWith(s, p) == Len(s) >= Len(p) /\ SubSeq(s, 1, Len(p)) = p

\* Position of the colon that ends a URL scheme, 0 when s has no scheme.
SchemeEnd(s) ==
  LET ends == {i \in 2..Len(s) : s[i] = ":" /\ \A j \in 1..(i - 1) : s[j] \in Letters}
  IN IF ends = {} THEN 0 ELSE CHOOSE i \in ends : \A k \in ends : i <= k

\* s with its leading slashes removed.
RECURSIVE StripSlashes(_)
StripSlashes(s) == IF s # << >> /\ Head(s) = "/" THEN StripSlashes(Tail(s)) ELSE s

\* new URL(s) with no base returns (TRUE) or throws (FALSE): s needs a scheme,
\* and a special scheme (http, https, ftp) needs a non-empty host.
ParsesAsUrl(s) ==
  LET e == SchemeEnd(s)
  IN /\ e > 0
     /\ SubSeq(s, 1, e - 1) \in SpecialSchemes
          => StripSlashes(SubSeq(s, e + 1, Len(s))) # << >>

\* The parts of a URL string that parses, as new URL(s) holds them: the scheme,
\* the host (what follows the scheme's slashes up to the next slash) and the
\* path (the rest; "/" when there is none).
UrlScheme(s) == SubSeq(s, 1, SchemeEnd(s) - 1)
AfterScheme(s) == StripSlashes(SubSeq(s, SchemeEnd(s) + 1, Len(s)))
FirstSlash(s) ==
  LET at == {i \in 1..Len(s) : s[i] = "/"}
  IN IF at = {} THEN 0 ELSE CHOOSE i \in at : \A k \in at : i <= k
LastSlash(s) ==
  LET at == {i \in 1..Len(s) : s[i] = "/"}
  IN IF at = {} THEN 0 ELSE CHOOSE i \in at : \A k \in at : i >= k
UrlHost(s) ==
  LET r == AfterScheme(s)
  IN IF FirstSlash(r) = 0 THEN r ELSE SubSeq(r, 1, FirstSlash(r) - 1)
UrlPath(s) ==
  LET r == AfterScheme(s)
  IN IF FirstSlash(r) = 0 THEN <<"/">> ELSE SubSeq(r, FirstSlash(r), Len(r))

\* new URL(rel, base).toString() for a relative path rel without a leading
\* slash: rel replaces what follows the last slash of the base's path.
NewUrl(rel, base) ==
  UrlScheme(base) \o <<":", "/", "/">> \o UrlHost(base)
    \o SubSeq(UrlPath(base), 1, LastSlash(UrlPath(base))) \o rel

\* The shape the specification asks of a URL credential: absolute, http or https.
WellFormedUrl(s) == (StartsWith(s, PrefixHttp) \/ StartsWith(s, PrefixHttps)) /\ ParsesAsUrl(s)

\* --------------------------------------------------------------- messages
NoError == << >>
ErrSupabaseNotInit == <<"supabase-not-initialized">>
ErrDriveNotLoggedIn == <<"drive-not-logged-in">>
ErrMongoNotInit == <<"mongo-not-initialized">>
ErrCheckUrlAndKey == <<"check-url-and-key">>
ErrEnterValidUrl == <<"enter-valid-backend-url">>
ErrGenerate == <<"generate-failed">>
ErrWord == <<"word-file-failed">>

Backends == {"supabase", "google", "mongo"}
Panels == Backends \cup {"export", "dispatch"}

VARIABLES
  panel,
  \* the record list (App.tsx:225-229)
  problems, activeProblemIndex, isLoading, error, generating,
  \* save statuses of the three save buttons (App.tsx:233-260)
  saveSuccess, saveError, driveSaveSuccess, driveSaveError, mongoDbSaveSuccess, mongoDbSaveError,
  \* Supabase: service handle, connection panel, save in flight
  supabase, isSupabaseConnected, isSupabaseConnecting, supabaseError, supabaseConnect,
  isSaving, dbSave,
  \* MongoDB relay
  backendUrl, isMongoDbConnected, isMongoDbConnecting, mongoDbError, mongoConnect,
  isSavingToMongo, mongoSave, endpoint,
  \* Google Drive
  gapi, tokenClient, token, isGoogleAuthReady, isGoogleLoggedIn, isGoogleConnecting,
  googleAuthError, googleConnect, pendingConsent, pendingRevoke, consentOutcome,
  isSavingToDrive, driveSave,
  \* Word export
  isDownloading, exportRun, renderDivs, downloads, exportsStarted, mathJax, exportCall,
  \* markup: a string handed to convertLatexToPlainText and what it returned; a
  \* record handed to saveProblemToDb with its classification and the rows
  \* inserted for it
  latex, plain, record, rows,
  \* observations: the last connect attempt and the last completed connect or
  \* disconnect of each backend, and the last direct call of a service function
  attempt, lastChange, call

recordVars == <<problems, activeProblemIndex, isLoading, error, generating>>
statusVars == <<saveSuccess, saveError, driveSaveSuccess, driveSaveError,
                mongoDbSaveSuccess, mongoDbSaveError>>
supabaseConnVars == <<supabase, isSupabaseConnected, isSupabaseConnecting, supabaseError,
                      supabaseConnect>>
supabaseSaveVars == <<isSaving, dbSave>>
mongoConnVars == <<backendUrl, isMongoDbConnected, isMongoDbConnecting, mongoDbError, mongoConnect>>
mongoSaveVars == <<isSavingToMongo, mongoSave, endpoint>>
googleConnVars == <<gapi, tokenClient, token, isGoogleAuthReady, isGoogleLoggedIn,
                    isGoogleConnecting, googleAuthError, googleConnect, pendingConsent,
                    pendingRevoke, consentOutcome>>
googleSaveVars == <<isSavingToDrive, driveSave>>
supabaseVars == <<supabaseConnVars, supabaseSaveVars>>
mongoVars == <<mongoConnVars, mongoSaveVars>>
googleVars == <<googleConnVars, googleSaveVars>>
exportVars == <<isDownloading, exportRun, renderDivs, downloads, exportsStarted, mathJax,
                exportCall>>
observeVars == <<attempt, lastChange, call>>
textVars == <<latex, plain, record, rows>>
vars == <<panel, textVars, recordVars, statusVars, supabaseVars, mongoVars, googleVars,
          exportVars, observeVars>>

\* The part of the page the user works with in a run: one backend's connection
\* panel and save button, the Word export, or ("dispatch") the save buttons of
\* all three backends, each connected with well-formed credentials.
InPanel(b) == panel \in {b, "dispatch"}

\* A nullable value: Null, or Some(v) holding v.
Null == {}
Some(v) == {v}
Value(o) == CHOOSE v \in o : TRUE

NoAttempt == [made |-> FALSE, wellFormed |-> FALSE, network |-> FALSE]
NoCall == [fn |-> "none", connected |-> FALSE, held |-> FALSE, threw |-> NoError, requests |-> 0]
\* A save handler's run: where it is, the network writes it has issued, the
\* outcome its write settled with (Null until then), whether a save to another
\* backend was in flight when it settled, and, while it is in flight, whether
\* the record it saves (problems[activeProblemIndex] at the click) has stopped
\* being the active record (a tab was selected or the list regenerated).
\* The last call of handleDownloadAsWord: the number of records it was called
\* with and how it ended.
NoExportCall == [records |-> 0, outcome |-> "none"]

IdleSave == [pc |-> "idle", writes |-> 0, outcome |-> Null, overlap |-> FALSE, stale |-> FALSE]

\* The state of App() when first rendered and of the service modules when loaded.
AppStart ==
  /\ problems = 0 /\ activeProblemIndex = 0 /\ isLoading = FALSE /\ error = NoError
  /\ generating = 0
  /\ saveSuccess = FALSE /\ saveError = NoError
  /\ driveSaveSuccess = FALSE /\ driveSaveError = NoError
  /\ mongoDbSaveSuccess = FALSE /\ mongoDbSaveError = NoError
  /\ supabase = Null /\ isSupabaseConnected = FALSE /\ isSupabaseConnecting = FALSE
  /\ supabaseError = NoError /\ supabaseConnect = Null
  /\ isSaving = FALSE /\ dbSave = IdleSave
  /\ backendUrl = Null /\ isMongoDbConnected = FALSE /\ isMongoDbConnecting = FALSE
  /\ mongoDbError = NoError /\ mongoConnect = Null
  /\ isSavingToMongo = FALSE /\ mongoSave = IdleSave /\ endpoint = Null
  /\ gapi = FALSE /\ tokenClient = FALSE /\ token = "null" /\ isGoogleAuthReady = FALSE
  /\ isGoogleLoggedIn = FALSE /\ isGoogleConnecting = FALSE /\ googleAuthError = NoError
  /\ googleConnect = "idle" /\ pendingConsent = 0 /\ pendingRevoke = 0
  /\ consentOutcome = "none"
  /\ isSavingToDrive = FALSE /\ driveSave = IdleSave
  /\ isDownloading = FALSE /\ exportRun = "idle" /\ renderDivs = 0 /\ downloads = 0
  /\ exportsStarted = 0 /\ exportCall = NoExportCall
  /\ attempt = [b \in Backends |-> NoAttempt]
  /\ lastChange = [b \in Backends |-> "none"]
  /\ call = NoCall

\* The state after construction.  panel is the part of the page the user works
\* with in this run; mathJax is the API the loaded MathJax build offers
\* (App.tsx:488-495), which only the export reads.
Init ==
  /\ panel \in Panels
  /\ mathJax \in IF panel = "export" THEN {"typesetPromise", "typeset", "none"}
                 ELSE {"typesetPromise"}
  /\ AppStart
  /\ latex = << >> /\ plain = Null /\ record = Null /\ rows = << >>

\* ------------------------------------------------------------ record list
\* useEffect on [activeProblemIndex] (App.tsx:294-301) and the resets at the
\* start of handleGenerateProblem (App.tsx:308-313).
ResetSaveStatuses ==
  /\ saveSuccess' = FALSE /\ saveError' = NoError
  /\ driveSaveSuccess' = FALSE /\ driveSaveError' = NoError
  /\ mongoDbSaveSuccess' = FALSE /\ mongoDbSaveError' = NoError

\* A save run after the active record has changed: a run in flight goes on with
\* the record it was started for.
Displaced(run) == IF run.pc = "awaiting" THEN [run EXCEPT !.stale = TRUE] ELSE run
DisplaceSaves ==
  /\ dbSave' = Displaced(dbSave) /\ driveSave' = Displaced(driveSave)
  /\ mongoSave' = Displaced(mongoSave)
  /\ UNCHANGED <<supabaseConnVars, isSaving, mongoConnVars, isSavingToMongo, endpoint,
                 googleConnVars, isSavingToDrive>>

\* handleGenerateProblem up to its await (button disabled while isLoading).
GenerateClick(n) ==
  /\ ~isLoading
  /\ isLoading' = TRUE /\ error' = NoError /\ problems' = 0 /\ generating' = n
  /\ ResetSaveStatuses
  /\ DisplaceSaves
  /\ UNCHANGED <<panel, textVars, activeProblemIndex, exportVars, observeVars>>

\* GenerateDone without setActiveProblemIndex(0).
GenerateDoneKeepsTab ==
  /\ generating > 0
  /\ problems' = generating /\ isLoading' = FALSE
  /\ generating' = 0
  /\ UNCHANGED <<panel, textVars, activeProblemIndex, error, statusVars, supabaseVars, mongoVars,
                 googleVars, exportVars, observeVars>>

\* Promise.all resolved: every generateMathProblem call returned a record.
GenerateDone ==
  /\ generating > 0
  /\ problems' = generating /\ activeProblemIndex' = 0 /\ isLoading' = FALSE
  /\ generating' = 0
  /\ IF activeProblemIndex # 0 THEN ResetSaveStatuses ELSE UNCHANGED statusVars
  /\ UNCHANGED <<panel, textVars, error, supabaseVars, mongoVars, googleVars, exportVars, observeVars>>

\* GenerateFail with setIsLoading(false) placed at the end of the try block
\* instead of in a finally block.
GenerateFailKeepsLoading ==
  /\ generating > 0
  /\ error' = ErrGenerate /\ generating' = 0
  /\ UNCHANGED <<panel, textVars, problems, activeProblemIndex, isLoading, statusVars,
                 supabaseVars, mongoVars, googleVars, exportVars, observeVars>>

\* Promise.all rejected: one generateMathProblem call threw.
GenerateFail ==
  /\ generating > 0
  /\ error' = ErrGenerate /\ isLoading' = FALSE /\ generating' = 0
  /\ UNCHANGED <<panel, textVars, problems, activeProblemIndex, statusVars, supabaseVars, mongoVars,
                 googleVars, exportVars, observeVars>>

\* A tab button (App.tsx:728-740) selects another record.
SelectTab(i) ==
  /\ i < problems /\ i # activeProblemIndex
  /\ activeProblemIndex' = i
  /\ ResetSaveStatuses
  /\ DisplaceSaves
  /\ UNCHANGED <<panel, textVars, problems, isLoading, error, generating, exportVars, observeVars>>

\* --------------------------------------------------------------- Supabase
\* createClient(url, key) of @supabase/supabase-js: the repository does not pin
\* what it does with a URL that is not a well-formed http(s) URL, so for such a
\* URL it may throw or return a client; for a well-formed one it returns a client.
CreateClientMayThrow(url) == ~WellFormedUrl(url)

\* initSupabase: the new value of the module's supabase variable and the result.
InitSupabase(url, key, old, throws) ==
  IF url # UrlEmpty /\ key # ""
  THEN IF throws
       THEN [supabase |-> Null, ok |-> FALSE]
       ELSE [supabase |-> Some([url |-> url, key |-> key]), ok |-> TRUE]
  ELSE [supabase |-> old, ok |-> FALSE]

\* handleSupabaseConnect up to its 500 ms timer; the button is rendered while
\* not connected and enabled while not connecting with both fields filled.
SupabaseConnectClick(url, key) ==
  /\ InPanel("supabase") /\ (panel = "dispatch" => url = UrlHttps)
  /\ ~isSupabaseConnected /\ ~isSupabaseConnecting /\ url # UrlEmpty /\ key # ""
  /\ isSupabaseConnecting' = TRUE /\ supabaseError' = NoError
  /\ supabaseConnect' = Some([url |-> url, key |-> key])
  /\ UNCHANGED <<panel, textVars, recordVars, statusVars, supabase, isSupabaseConnected, supabaseSaveVars,
                 mongoVars, googleVars, exportVars, observeVars>>

\* handleSupabaseConnect after the timer: initSupabase, then the flags.
SupabaseConnectFinish(throws) ==
  /\ supabaseConnect # Null
  /\ throws => CreateClientMayThrow(Value(supabaseConnect).url)
  /\ LET c == Value(supabaseConnect)
         r == InitSupabase(c.url, c.key, supabase, throws)
     IN /\ supabase' = r.supabase
        /\ isSupabaseConnected' = r.ok
        /\ supabaseError' = IF r.ok THEN supabaseError ELSE ErrCheckUrlAndKey
        /\ lastChange' = IF r.ok THEN [lastChange EXCEPT !["supabase"] = "connected"]
                         ELSE lastChange
  /\ attempt' = [attempt EXCEPT !["supabase"] =
                   [made |-> TRUE,
                    wellFormed |-> WellFormedUrl(Value(supabaseConnect).url)
                                     /\ Value(supabaseConnect).key # "",
                    network |-> FALSE]]
  /\ isSupabaseConnecting' = FALSE /\ supabaseConnect' = Null
  /\ UNCHANGED <<panel, textVars, recordVars, statusVars, supabaseSaveVars, mongoVars, googleVars,
                 exportVars, call>>

\* The disconnect button's handler: () => setIsSupabaseConnected(false).
SupabaseDisconnectClick ==
  /\ panel = "supabase"
  /\ isSupabaseConnected
  /\ isSupabaseConnected' = FALSE
  /\ lastChange' = [lastChange EXCEPT !["supabase"] = "disconnected"]
  /\ UNCHANGED <<panel, textVars, recordVars, statusVars, supabase, isSupabaseConnecting, supabaseError,
                 supabaseConnect, supabaseSaveVars, mongoVars, googleVars, exportVars,
                 attempt, call>>

\* saveProblemToDb up to its await: the guard on the client, then one insert.
DbInsertRequests(client) == IF client = Null THEN 0 ELSE 1
SaveProblemToDbStart(client) ==
  [threw |-> IF client = Null THEN ErrSupabaseNotInit ELSE NoError,
   requests |-> DbInsertRequests(client)]

\* handleSaveToDb up to the await of the insert (button enabled while connected
\* and not saving; the save buttons are rendered while the list is not empty).
HandleSaveToDb ==
  /\ InPanel("supabase")
  /\ problems > 0 /\ activeProblemIndex < problems
  /\ isSupabaseConnected /\ ~isSaving
  /\ saveSuccess' = FALSE
  /\ LET s == SaveProblemToDbStart(supabase)
     IN IF s.threw # NoError
        THEN /\ saveError' = s.threw /\ isSaving' = FALSE
             /\ dbSave' = [pc |-> "returned", writes |-> s.requests, outcome |-> Null, overlap |-> FALSE, stale |-> FALSE]
        ELSE /\ saveError' = NoError /\ isSaving' = TRUE
             /\ dbSave' = [pc |-> "awaiting", writes |-> s.requests, outcome |-> Null, overlap |-> FALSE, stale |-> FALSE]
  /\ UNCHANGED <<panel, textVars, recordVars, driveSaveSuccess, driveSaveError, mongoDbSaveSuccess,
                 mongoDbSaveError, supabaseConnVars, mongoVars, googleVars, exportVars,
                 observeVars>>

\* What the awaited insert resolves with: { error } is null, or an object whose
\* message is the backend's (a server-side rejection, or the transport error
\* the client library reports the same way).
DbErrorMessages == {"duplicate key value violates unique constraint", "TypeError: Failed to fetch"}
DbInsertOutcomes == {[error |-> Null]} \cup {[error |-> Some(m)] : m \in DbErrorMessages}

\* DbSaveError with a fixed message in place of error.message.
DbSaveErrorGeneric(outcome) ==
  IF outcome.error # Null THEN <<"db-save-failed: ", "see the console">> ELSE NoError

\* saveProblemToDb after the await: the message of the Error it throws for an
\* outcome (NoError: it returns).
DbSaveError(outcome) ==
  IF outcome.error # Null THEN <<"db-save-failed: ", Value(outcome.error)>> ELSE NoError

\* The insert settled; handleSaveToDb's try, catch and finally.
SaveToDbSettled(outcome) ==
  /\ dbSave.pc = "awaiting"
  /\ IF DbSaveError(outcome) = NoError
     THEN saveSuccess' = TRUE /\ UNCHANGED saveError
     ELSE saveError' = DbSaveError(outcome) /\ UNCHANGED saveSuccess
  /\ isSaving' = FALSE
  /\ dbSave' = [dbSave EXCEPT !.pc = "returned", !.outcome = Some(outcome), !.stale = FALSE,
                               !.overlap = "awaiting" \in {driveSave.pc, mongoSave.pc}]
  /\ UNCHANGED <<panel, textVars, recordVars, driveSaveSuccess, driveSaveError, mongoDbSaveSuccess,
                 mongoDbSaveError, supabaseConnVars, mongoVars, googleVars, exportVars,
                 observeVars>>

\* saveProblemToDb called by an importer of the service module.
SaveProblemToDbCall ==
  /\ panel = "supabase"
  /\ LET s == SaveProblemToDbStart(supabase)
     IN call' = [fn |-> "saveProblemToDb", connected |-> isSupabaseConnected,
                 held |-> supabase # Null, threw |-> s.threw, requests |-> s.requests]
  /\ UNCHANGED <<panel, textVars, recordVars, statusVars, supabaseVars, mongoVars, googleVars, exportVars,
                 attempt, lastChange>>

\* ---------------------------------------------------------- MongoDB relay
\* initMongoDb: the new value of the module's backendUrl and the result.
InitMongoDb(url, old) ==
  IF url # UrlEmpty /\ (StartsWith(url, PrefixHttp) \/ StartsWith(url, PrefixHttps))
  THEN IF ParsesAsUrl(url)
       THEN [backendUrl |-> Some(url), ok |-> TRUE]
       ELSE [backendUrl |-> Null, ok |-> FALSE]
  ELSE [backendUrl |-> old, ok |-> FALSE]

\* handleMongoDbConnect up to its 500 ms timer.
MongoDbConnectClick(url) ==
  /\ InPanel("mongo") /\ (panel = "dispatch" => url = UrlHttps)
  /\ ~isMongoDbConnected /\ ~isMongoDbConnecting /\ url # UrlEmpty
  /\ isMongoDbConnecting' = TRUE /\ mongoDbError' = NoError
  /\ mongoConnect' = Some(url)
  /\ UNCHANGED <<panel, textVars, recordVars, statusVars, supabaseVars, backendUrl, isMongoDbConnected,
                 mongoSaveVars, googleVars, exportVars, observeVars>>

\* handleMongoDbConnect after the timer: initMongoDb, then the flags.
MongoDbConnectFinish ==
  /\ mongoConnect # Null
  /\ LET r == InitMongoDb(Value(mongoConnect), backendUrl)
     IN /\ backendUrl' = r.backendUrl
        /\ isMongoDbConnected' = r.ok
        /\ mongoDbError' = IF r.ok THEN mongoDbError ELSE ErrEnterValidUrl
        /\ lastChange' = IF r.ok THEN [lastChange EXCEPT !["mongo"] = "connected"]
                         ELSE lastChange
  /\ attempt' = [attempt EXCEPT !["mongo"] =
                   [made |-> TRUE, wellFormed |-> WellFormedUrl(Value(mongoConnect)),
                    network |-> FALSE]]
  /\ isMongoDbConnecting' = FALSE /\ mongoConnect' = Null
  /\ UNCHANGED <<panel, textVars, recordVars, statusVars, supabaseVars, mongoSaveVars, googleVars,
                 exportVars, call>>

\* The disconnect button's handler: () => setIsMongoDbConnected(false).
MongoDbDisconnectClick ==
  /\ panel = "mongo"
  /\ isMongoDbConnected
  /\ isMongoDbConnected' = FALSE
  /\ lastChange' = [lastChange EXCEPT !["mongo"] = "disconnected"]
  /\ UNCHANGED <<panel, textVars, recordVars, statusVars, supabaseVars, backendUrl, isMongoDbConnecting,
                 mongoDbError, mongoConnect, mongoSaveVars, googleVars, exportVars,
                 attempt, call>>

\* MongoFetchRequests with the fetch issued a second time.
MongoFetchRequestsRetried(url) == IF url = Null THEN 0 ELSE 2

\* saveProblemToMongoDb up to its await: the guard on backendUrl, then one fetch.
MongoFetchRequests(url) == IF url = Null THEN 0 ELSE 1
SaveProblemToMongoDbStart(url) ==
  [threw |-> IF url = Null THEN ErrMongoNotInit ELSE NoError,
   requests |-> MongoFetchRequests(url)]

\* The body of a response as response.json() sees it: not JSON (json() rejects),
\* JSON null, a JSON object without a message, with an empty one, with a message.
BodyText == [json |-> FALSE, object |-> FALSE, message |-> Null]
BodyJsonNull == [json |-> TRUE, object |-> FALSE, message |-> Null]
BodyJsonObject == [json |-> TRUE, object |-> TRUE, message |-> Null]
BodyJsonEmptyMessage == [json |-> TRUE, object |-> TRUE, message |-> Some("")]
BodyJsonMessage == [json |-> TRUE, object |-> TRUE, message |-> Some("quota exceeded")]
Bodies == {BodyText, BodyJsonNull, BodyJsonObject, BodyJsonEmptyMessage, BodyJsonMessage}

\* What the awaited fetch can do: resolve with a response, or reject with a
\* TypeError whose message is the browser's.
HttpResponse(status, statusText, body) ==
  [rejects |-> FALSE, cause |-> "", status |-> status, statusText |-> statusText, body |-> body]
FetchRejection(message) ==
  [rejects |-> TRUE, cause |-> message, status |-> 0, statusText |-> "", body |-> BodyText]
TypeErrorMessages == {"Failed to fetch", "Load failed"}
FetchOutcomes ==
  {HttpResponse(200, "OK", BodyJsonObject), HttpResponse(201, "Created", BodyJsonObject)}
    \cup {HttpResponse(500, "Internal Server Error", b) : b \in Bodies}
    \cup {FetchRejection(m) : m \in TypeErrorMessages}

\* response.ok
ResponseOk(r) == r.status >= 200 /\ r.status <= 299

\* The HTTP status line of the first errorMessage (mongoDbService.ts:47).
StatusLine(r) == <<"server-error: ", ToString(r.status), " ", r.statusText>>

\* MongoErrorMessage without the inner try: the body is never read.
MongoErrorMessageStatusOnly(r) == StatusLine(r)

\* errorMessage after the inner try: errorData.message || errorMessage, where
\* response.json() throws for a body that is not JSON and errorData.message
\* throws for null.
MongoErrorMessage(r) ==
  IF r.body.json /\ r.body.object /\ r.body.message # Null /\ Value(r.body.message) # ""
  THEN <<Value(r.body.message)>>
  ELSE StatusLine(r)

\* error.message.includes('fetch')
IncludesFetch(message) == message \in {"Failed to fetch"}

ErrCannotReachBackend == <<"cannot-reach-backend">>

\* MongoSaveError with a rejected fetch reported through the same Error as a
\* response that is not ok.
MongoSaveErrorWrapped(outcome) ==
  IF outcome.rejects
  THEN <<"mongo-save-failed: ", outcome.cause>>
  ELSE IF ResponseOk(outcome) THEN NoError
       ELSE <<"mongo-save-failed: ">> \o MongoErrorMessage(outcome)

\* The message of the Error saveProblemToMongoDb throws for an outcome (NoError:
\* it returns).
MongoSaveError(outcome) ==
  IF outcome.rejects
  THEN IF IncludesFetch(outcome.cause) THEN ErrCannotReachBackend ELSE <<outcome.cause>>
  ELSE IF ResponseOk(outcome) THEN NoError
       ELSE <<"mongo-save-failed: ">> \o MongoErrorMessage(outcome)

\* The path of the endpoint and the URL the fetch is issued to.
ApiProblems == <<"a", "p", "i", "/", "p", "r", "o", "b", "l", "e", "m", "s">>
EndpointOf(url) == NewUrl(ApiProblems, url)

\* handleSaveToMongo up to the await of the fetch.
HandleSaveToMongo ==
  /\ InPanel("mongo")
  /\ problems > 0 /\ activeProblemIndex < problems
  /\ isMongoDbConnected /\ ~isSavingToMongo
  /\ mongoDbSaveSuccess' = FALSE
  /\ LET s == SaveProblemToMongoDbStart(backendUrl)
     IN IF s.threw # NoError
        THEN /\ mongoDbSaveError' = s.threw /\ isSavingToMongo' = FALSE
             /\ mongoSave' = [pc |-> "returned", writes |-> s.requests, outcome |-> Null, overlap |-> FALSE, stale |-> FALSE]
             /\ UNCHANGED endpoint
        ELSE /\ mongoDbSaveError' = NoError /\ isSavingToMongo' = TRUE
             /\ mongoSave' = [pc |-> "awaiting", writes |-> s.requests, outcome |-> Null, overlap |-> FALSE, stale |-> FALSE]
             /\ endpoint' = Some(EndpointOf(Value(backendUrl)))
  /\ UNCHANGED <<panel, textVars, recordVars, saveSuccess, saveError, driveSaveSuccess, driveSaveError,
                 supabaseVars, mongoConnVars, googleVars, exportVars, observeVars>>

\* SaveToMongoSettled with one error state shared by the save buttons: a
\* failure is also written to the Supabase status.
SaveToMongoSettledShared(outcome) ==
  /\ mongoSave.pc = "awaiting"
  /\ IF MongoSaveError(outcome) = NoError
     THEN mongoDbSaveSuccess' = TRUE /\ UNCHANGED <<mongoDbSaveError, saveError>>
     ELSE /\ mongoDbSaveError' = MongoSaveError(outcome) /\ saveError' = MongoSaveError(outcome)
          /\ UNCHANGED mongoDbSaveSuccess
  /\ isSavingToMongo' = FALSE
  /\ mongoSave' = [mongoSave EXCEPT !.pc = "returned", !.outcome = Some(outcome), !.stale = FALSE,
                                     !.overlap = "awaiting" \in {dbSave.pc, driveSave.pc}]
  /\ UNCHANGED <<panel, textVars, recordVars, saveSuccess, driveSaveSuccess, driveSaveError,
                 supabaseVars, mongoConnVars, endpoint, googleVars, exportVars, observeVars>>

\* The fetch settled.
SaveToMongoSettled(outcome) ==
  /\ mongoSave.pc = "awaiting"
  /\ IF MongoSaveError(outcome) = NoError
     THEN mongoDbSaveSuccess' = TRUE /\ UNCHANGED mongoDbSaveError
     ELSE mongoDbSaveError' = MongoSaveError(outcome) /\ UNCHANGED mongoDbSaveSuccess
  /\ isSavingToMongo' = FALSE
  /\ mongoSave' = [mongoSave EXCEPT !.pc = "returned", !.outcome = Some(outcome), !.stale = FALSE,
                                     !.overlap = "awaiting" \in {dbSave.pc, driveSave.pc}]
  /\ UNCHANGED <<panel, textVars, recordVars, saveSuccess, saveError, driveSaveSuccess, driveSaveError,
                 supabaseVars, mongoConnVars, endpoint, googleVars, exportVars, observeVars>>

\* saveProblemToMongoDb called by an importer of the service module.
SaveProblemToMongoDbCall ==
  /\ panel = "mongo"
  /\ LET s == SaveProblemToMongoDbStart(backendUrl)
     IN call' = [fn |-> "saveProblemToMongoDb", connected |-> isMongoDbConnected,
                 held |-> backendUrl # Null, threw |-> s.threw, requests |-> s.requests]
  /\ UNCHANGED <<panel, textVars, recordVars, statusVars, supabaseVars, mongoVars, googleVars, exportVars,
                 attempt, lastChange>>

\* ----------------------------------------------------------- Google Drive
ErrGoogleInit == <<"google-init-failed">>
ErrOriginMismatch == <<"google-origin-mismatch">>
ErrGoogleAuth == <<"google-auth-error">>
ErrDriveSaveFailed == <<"drive-save-failed">>

\* The error types the token client's error_callback is called with.
ConsentErrorTypes == {"popup_closed", "popup_failed_to_open", "origin_mismatch", "other"}

\* handleGoogleConnect up to its first await (button rendered while not logged
\* in, enabled while not connecting and a client id is typed in).
GoogleConnectClick(clientId) ==
  /\ InPanel("google") /\ (panel = "dispatch" => pendingConsent = 0)
  /\ ~isGoogleLoggedIn /\ ~isGoogleConnecting /\ clientId # ""
  /\ pendingConsent < MaxPending
  /\ isGoogleConnecting' = TRUE /\ googleAuthError' = NoError
  /\ googleConnect' = "loading"
  /\ UNCHANGED <<panel, textVars, recordVars, statusVars, supabaseVars, mongoVars, gapi, tokenClient,
                 token, isGoogleAuthReady, isGoogleLoggedIn, pendingConsent, pendingRevoke,
                 consentOutcome, googleSaveVars, exportVars, observeVars>>

\* The two script-load promises resolved: initGoogleClient starts, sets the
\* module's gapi and google, and waits for gapi.load and gapi.client.init.
GoogleLibsLoaded ==
  /\ googleConnect = "loading"
  /\ gapi' = TRUE /\ googleConnect' = "init"
  /\ UNCHANGED <<panel, textVars, recordVars, statusVars, supabaseVars, mongoVars, tokenClient, token,
                 isGoogleAuthReady, isGoogleLoggedIn, isGoogleConnecting, googleAuthError,
                 pendingConsent, pendingRevoke, consentOutcome, googleSaveVars, exportVars,
                 observeVars>>

\* The state of initGoogleClient's promise once handleAuthClick has requested a
\* token: resolve() (googleDriveService.ts:54) runs before the await in
\* handleGoogleConnect returns and handleAuthClick is called (App.tsx:416-418).
PromiseAtConsent == "resolved"

\* reject() on a promise: only a pending promise changes.
Reject(promise) == IF promise = "pending" THEN "rejected" ELSE promise

\* gapi.client.init returned: the token client is created, the promise resolves,
\* handleGoogleConnect continues: auth ready, handleAuthClick asks for a token
\* (the consent popup opens), and the finally block ends the connecting phase.
GoogleInitOk ==
  /\ googleConnect = "init"
  /\ tokenClient' = TRUE /\ isGoogleAuthReady' = TRUE
  /\ pendingConsent' = pendingConsent + 1
  /\ isGoogleConnecting' = FALSE /\ googleConnect' = "idle"
  /\ attempt' = [attempt EXCEPT !["google"] =
                   [made |-> TRUE, wellFormed |-> TRUE, network |-> TRUE]]
  /\ UNCHANGED <<panel, textVars, recordVars, statusVars, supabaseVars, mongoVars, gapi, token,
                 isGoogleLoggedIn, googleAuthError, pendingRevoke, consentOutcome,
                 googleSaveVars, exportVars, lastChange, call>>

\* gapi.client.init threw: the promise rejects and handleGoogleConnect's catch runs.
GoogleInitFail ==
  /\ googleConnect = "init"
  /\ googleAuthError' = ErrGoogleInit /\ isGoogleAuthReady' = FALSE
  /\ isGoogleConnecting' = FALSE /\ googleConnect' = "idle"
  /\ attempt' = [attempt EXCEPT !["google"] =
                   [made |-> TRUE, wellFormed |-> TRUE, network |-> TRUE]]
  /\ UNCHANGED <<panel, textVars, recordVars, statusVars, supabaseVars, mongoVars, gapi, tokenClient,
                 token, isGoogleLoggedIn, pendingConsent, pendingRevoke, consentOutcome,
                 googleSaveVars, exportVars, lastChange, call>>

\* The token client's callback with an access token.
ConsentGranted ==
  /\ pendingConsent > 0
  /\ pendingConsent' = pendingConsent - 1 /\ consentOutcome' = "granted"
  /\ token' = "token" /\ isGoogleLoggedIn' = TRUE
  /\ lastChange' = [lastChange EXCEPT !["google"] = "connected"]
  /\ UNCHANGED <<panel, textVars, recordVars, statusVars, supabaseVars, mongoVars, gapi, tokenClient,
                 isGoogleAuthReady, isGoogleConnecting, googleAuthError, googleConnect,
                 pendingRevoke, googleSaveVars, exportVars, attempt, call>>

\* The token client's callback without an access token.
ConsentDenied ==
  /\ pendingConsent > 0
  /\ pendingConsent' = pendingConsent - 1 /\ consentOutcome' = "denied"
  /\ isGoogleLoggedIn' = FALSE
  /\ UNCHANGED <<panel, textVars, recordVars, statusVars, supabaseVars, mongoVars, gapi, tokenClient,
                 token, isGoogleAuthReady, isGoogleConnecting, googleAuthError, googleConnect,
                 pendingRevoke, googleSaveVars, exportVars, observeVars>>

\* error_callback: the two popup errors do nothing, the others call reject().
ErrorCallbackRejects(type) == type \notin {"popup_closed", "popup_failed_to_open"}
ErrorCallbackMessage(type) == IF type = "origin_mismatch" THEN ErrOriginMismatch ELSE ErrGoogleAuth

\* ConsentError with the popup errors reported like the other errors, through
\* the auth error state.
ConsentErrorPopupReported(type) ==
  /\ pendingConsent > 0
  /\ pendingConsent' = pendingConsent - 1 /\ consentOutcome' = type
  /\ googleAuthError' = ErrorCallbackMessage(type)
  /\ UNCHANGED <<panel, textVars, recordVars, statusVars, supabaseVars, mongoVars, gapi, tokenClient,
                 token, isGoogleAuthReady, isGoogleLoggedIn, isGoogleConnecting, googleConnect,
                 pendingRevoke, googleSaveVars, exportVars, observeVars>>

\* The token client's error_callback.  A rejection reaches handleGoogleConnect's
\* catch only if it settles the promise.
ConsentError(type) ==
  /\ pendingConsent > 0
  /\ pendingConsent' = pendingConsent - 1 /\ consentOutcome' = type
  /\ LET promise == IF ErrorCallbackRejects(type) THEN Reject(PromiseAtConsent)
                    ELSE PromiseAtConsent
     IN IF promise = "rejected"
        THEN /\ googleAuthError' = ErrorCallbackMessage(type)
             /\ isGoogleAuthReady' = FALSE /\ isGoogleConnecting' = FALSE
        ELSE UNCHANGED <<googleAuthError, isGoogleAuthReady, isGoogleConnecting>>
  /\ UNCHANGED <<panel, textVars, recordVars, statusVars, supabaseVars, mongoVars, gapi, tokenClient,
                 token, isGoogleLoggedIn, googleConnect, pendingRevoke, googleSaveVars,
                 exportVars, observeVars>>

\* SignoutRevokes without the test of the token.
SignoutRevokesUnchecked(loaded, tok) == loaded

\* handleSignoutClick: whether it asks Google to revoke the token.
SignoutRevokes(loaded, tok) == loaded /\ tok # "null"

\* OnSignoutClick with the local state cleared by the handler itself, before
\* the revoke request has been answered.
OnSignoutClickClearsFirst ==
  /\ panel = "google"
  /\ isGoogleLoggedIn
  /\ pendingRevoke < MaxPending
  /\ pendingRevoke' = IF SignoutRevokes(gapi, token) THEN pendingRevoke + 1 ELSE pendingRevoke
  /\ token' = "null" /\ isGoogleLoggedIn' = FALSE
  /\ driveSaveSuccess' = FALSE /\ driveSaveError' = NoError
  /\ isGoogleAuthReady' = FALSE
  /\ UNCHANGED <<panel, textVars, recordVars, saveSuccess, saveError, mongoDbSaveSuccess,
                 mongoDbSaveError, supabaseVars, mongoVars, gapi, tokenClient,
                 isGoogleConnecting, googleAuthError, googleConnect,
                 pendingConsent, consentOutcome, googleSaveVars, exportVars, observeVars>>

\* onSignout (button rendered while logged in).
OnSignoutClick ==
  /\ panel = "google"
  /\ isGoogleLoggedIn
  /\ pendingRevoke < MaxPending
  /\ pendingRevoke' = IF SignoutRevokes(gapi, token) THEN pendingRevoke + 1 ELSE pendingRevoke
  /\ driveSaveSuccess' = FALSE /\ driveSaveError' = NoError
  /\ isGoogleAuthReady' = FALSE
  /\ UNCHANGED <<panel, textVars, recordVars, saveSuccess, saveError, mongoDbSaveSuccess,
                 mongoDbSaveError, supabaseVars, mongoVars, gapi, tokenClient, token,
                 isGoogleLoggedIn, isGoogleConnecting, googleAuthError, googleConnect,
                 pendingConsent, consentOutcome, googleSaveVars, exportVars, observeVars>>

\* The callback of google.accounts.oauth2.revoke.
RevokeDone ==
  /\ pendingRevoke > 0
  /\ pendingRevoke' = pendingRevoke - 1
  /\ token' = "null" /\ isGoogleLoggedIn' = FALSE
  /\ lastChange' = [lastChange EXCEPT !["google"] = "disconnected"]
  /\ UNCHANGED <<panel, textVars, recordVars, statusVars, supabaseVars, mongoVars, gapi, tokenClient,
                 isGoogleAuthReady, isGoogleConnecting, googleAuthError, googleConnect,
                 pendingConsent, consentOutcome, googleSaveVars, exportVars, attempt, call>>

\* handleSignoutClick called by an importer of the service module.
HandleSignoutCall ==
  /\ panel = "google"
  /\ SignoutRevokes(gapi, token) => pendingRevoke < MaxPending
  /\ pendingRevoke' = IF SignoutRevokes(gapi, token) THEN pendingRevoke + 1 ELSE pendingRevoke
  /\ call' = [fn |-> "handleSignoutClick", connected |-> isGoogleLoggedIn,
              held |-> token # "null", threw |-> NoError,
              requests |-> IF SignoutRevokes(gapi, token) THEN 1 ELSE 0]
  /\ UNCHANGED <<panel, textVars, recordVars, statusVars, supabaseVars, mongoVars, gapi, tokenClient,
                 token, isGoogleAuthReady, isGoogleLoggedIn, isGoogleConnecting,
                 googleAuthError, googleConnect, pendingConsent, consentOutcome,
                 googleSaveVars, exportVars, attempt, lastChange>>

\* saveProblemToDrive up to its await: the guard on the token, then one upload.
DriveUploadRequests(loaded, tok) == IF ~loaded \/ tok = "null" THEN 0 ELSE 1
SaveProblemToDriveStart(loaded, tok) ==
  [threw |-> IF ~loaded \/ tok = "null" THEN ErrDriveNotLoggedIn ELSE NoError,
   requests |-> DriveUploadRequests(loaded, tok)]

\* What the awaited gapi.client.request can do: resolve with a response that
\* carries a status, or reject.
UploadResponse(status) == [rejects |-> FALSE, status |-> status]
UploadRejection == [rejects |-> TRUE, status |-> 0]
UploadOutcomes == {UploadResponse(200), UploadResponse(201), UploadResponse(403), UploadRejection}

\* DriveSaveError without the catch block: a rejected request is not rethrown.
DriveSaveErrorUncaught(outcome) ==
  IF outcome.rejects \/ outcome.status = 200 THEN NoError ELSE ErrDriveSaveFailed

\* The message of the Error saveProblemToDrive throws for an outcome (NoError:
\* it returns): the Error thrown for a status other than 200 is caught by the
\* function's own catch, which throws the generic one.
DriveSaveError(outcome) ==
  IF ~outcome.rejects /\ outcome.status = 200 THEN NoError ELSE ErrDriveSaveFailed

\* handleSaveToDrive up to the await of the upload.
HandleSaveToDrive ==
  /\ InPanel("google")
  /\ problems > 0 /\ activeProblemIndex < problems
  /\ isGoogleLoggedIn /\ ~isSavingToDrive
  /\ driveSaveSuccess' = FALSE
  /\ LET s == SaveProblemToDriveStart(gapi, token)
     IN IF s.threw # NoError
        THEN /\ driveSaveError' = s.threw /\ isSavingToDrive' = FALSE
             /\ driveSave' = [pc |-> "returned", writes |-> s.requests, outcome |-> Null, overlap |-> FALSE, stale |-> FALSE]
        ELSE /\ driveSaveError' = NoError /\ isSavingToDrive' = TRUE
             /\ driveSave' = [pc |-> "awaiting", writes |-> s.requests, outcome |-> Null, overlap |-> FALSE, stale |-> FALSE]
  /\ UNCHANGED <<panel, textVars, recordVars, saveSuccess, saveError, mongoDbSaveSuccess,
                 mongoDbSaveError, supabaseVars, mongoVars, googleConnVars, exportVars,
                 observeVars>>

\* SaveToDriveSettled with a failed upload treated as the end of the session:
\* the token is dropped and the backend reported as not connected.
SaveToDriveSettledEndsSession(outcome) ==
  /\ driveSave.pc = "awaiting"
  /\ IF DriveSaveError(outcome) = NoError
     THEN driveSaveSuccess' = TRUE /\ UNCHANGED <<driveSaveError, token, isGoogleLoggedIn>>
     ELSE /\ driveSaveError' = DriveSaveError(outcome) /\ UNCHANGED driveSaveSuccess
          /\ token' = "null" /\ isGoogleLoggedIn' = FALSE
  /\ isSavingToDrive' = FALSE
  /\ driveSave' = [driveSave EXCEPT !.pc = "returned", !.outcome = Some(outcome), !.stale = FALSE,
                                     !.overlap = "awaiting" \in {dbSave.pc, mongoSave.pc}]
  /\ UNCHANGED <<panel, textVars, recordVars, saveSuccess, saveError, mongoDbSaveSuccess,
                 mongoDbSaveError, supabaseVars, mongoVars, gapi, tokenClient,
                 isGoogleAuthReady, isGoogleConnecting, googleAuthError, googleConnect,
                 pendingConsent, pendingRevoke, consentOutcome, exportVars, observeVars>>

\* The upload settled.
SaveToDriveSettled(outcome) ==
  /\ driveSave.pc = "awaiting"
  /\ IF DriveSaveError(outcome) = NoError
     THEN driveSaveSuccess' = TRUE /\ UNCHANGED driveSaveError
     ELSE driveSaveError' = DriveSaveError(outcome) /\ UNCHANGED driveSaveSuccess
  /\ isSavingToDrive' = FALSE
  /\ driveSave' = [driveSave EXCEPT !.pc = "returned", !.outcome = Some(outcome), !.stale = FALSE,
                                     !.overlap = "awaiting" \in {dbSave.pc, mongoSave.pc}]
  /\ UNCHANGED <<panel, textVars, recordVars, saveSuccess, saveError, mongoDbSaveSuccess,
                 mongoDbSaveError, supabaseVars, mongoVars, googleConnVars, exportVars,
                 observeVars>>

\* saveProblemToDrive called by an importer of the service module.
SaveProblemToDriveCall ==
  /\ panel = "google"
  /\ LET s == SaveProblemToDriveStart(gapi, token)
     IN call' = [fn |-> "saveProblemToDrive", connected |-> isGoogleLoggedIn,
                 held |-> token # "null", threw |-> s.threw, requests |-> s.requests]
  /\ UNCHANGED <<panel, textVars, recordVars, statusVars, supabaseVars, mongoVars, googleVars, exportVars,
                 attempt, lastChange>>

\* ------------------------------------------------------------ Word export
\* CaptureAndDownload with the failing packaging step placed after link.click().
CaptureAndDownloadLate(packagingThrows) ==
  /\ renderDivs' = renderDivs - 1
  /\ downloads' = downloads + 1
  /\ IF packagingThrows
     THEN error' = ErrWord /\ exportCall' = [exportCall EXCEPT !.outcome = "failed"]
     ELSE UNCHANGED error /\ exportCall' = [exportCall EXCEPT !.outcome = "downloaded"]
  /\ isDownloading' = FALSE /\ exportRun' = "idle"

\* Steps 4-7 of handleDownloadAsWord: capture, remove the container, package
\* and trigger the download; the catch and finally blocks.
CaptureAndDownload(packagingThrows) ==
  /\ renderDivs' = renderDivs - 1
  /\ IF packagingThrows
     THEN /\ error' = ErrWord /\ UNCHANGED downloads
          /\ exportCall' = [exportCall EXCEPT !.outcome = "failed"]
     ELSE /\ downloads' = downloads + 1 /\ UNCHANGED error
          /\ exportCall' = [exportCall EXCEPT !.outcome = "downloaded"]
  /\ isDownloading' = FALSE /\ exportRun' = "idle"

\* DownloadClick without the await of typesetPromise: the typesetting is
\* started and the 2 s timer is awaited whatever MathJax offers.
DownloadClickTimerOnly ==
  /\ panel = "export"
  /\ problems > 0 /\ ~isDownloading
  /\ exportsStarted < MaxExports
  /\ exportsStarted' = exportsStarted + 1
  /\ renderDivs' = renderDivs + 1
  /\ error' = NoError /\ isDownloading' = TRUE
  /\ exportRun' = "delay"
  /\ exportCall' = [records |-> problems, outcome |-> "running"]
  /\ UNCHANGED <<panel, textVars, problems, activeProblemIndex, isLoading, generating, statusVars,
                 supabaseVars, mongoVars, googleVars, downloads, mathJax, observeVars>>

\* handleDownloadAsWord up to its await (button enabled while not downloading
\* and the list is not empty): steps 1-2 append the hidden container, step 3
\* starts the typesetting.  Without typesetPromise the fire-and-forget
\* typeset() is called if there is one, and a 2 s timer is awaited.
DownloadClick ==
  /\ panel = "export"
  /\ problems > 0 /\ ~isDownloading
  /\ exportsStarted < MaxExports
  /\ exportsStarted' = exportsStarted + 1
  /\ renderDivs' = renderDivs + 1
  /\ error' = NoError /\ isDownloading' = TRUE
  /\ exportRun' = IF mathJax = "typesetPromise" THEN "typesetting" ELSE "delay"
  /\ exportCall' = [records |-> problems, outcome |-> "running"]
  /\ UNCHANGED <<panel, textVars, problems, activeProblemIndex, isLoading, generating, statusVars,
                 supabaseVars, mongoVars, googleVars, downloads, mathJax, observeVars>>

\* handleDownloadAsWord called while the record list is empty (the download
\* button is not rendered then): the guard on problems.length returns at once.
DownloadAsWordEmpty ==
  /\ panel = "export"
  /\ problems = 0 /\ ~isDownloading
  /\ exportCall' = [records |-> problems, outcome |-> "returned"]
  /\ UNCHANGED <<panel, textVars, recordVars, statusVars, supabaseVars, mongoVars, googleVars,
                 isDownloading, exportRun, renderDivs, downloads, exportsStarted, mathJax,
                 observeVars>>

\* MathJax.typesetPromise([renderDiv]) resolved.
TypesetResolved(packagingThrows) ==
  /\ exportRun = "typesetting"
  /\ CaptureAndDownload(packagingThrows)
  /\ UNCHANGED <<panel, textVars, problems, activeProblemIndex, isLoading, generating, statusVars,
                 supabaseVars, mongoVars, googleVars, exportsStarted, mathJax, observeVars>>

\* MathJax.typesetPromise([renderDiv]) rejected: control jumps to the catch.
TypesetRejected ==
  /\ exportRun = "typesetting"
  /\ error' = ErrWord /\ isDownloading' = FALSE /\ exportRun' = "idle"
  /\ exportCall' = [exportCall EXCEPT !.outcome = "failed"]
  /\ UNCHANGED <<panel, textVars, problems, activeProblemIndex, isLoading, generating, statusVars,
                 supabaseVars, mongoVars, googleVars, renderDivs, downloads, exportsStarted,
                 mathJax, observeVars>>

\* The 2 s fallback timer fired.
DelayElapsed(packagingThrows) ==
  /\ exportRun = "delay"
  /\ CaptureAndDownload(packagingThrows)
  /\ UNCHANGED <<panel, textVars, problems, activeProblemIndex, isLoading, generating, statusVars,
                 supabaseVars, mongoVars, googleVars, exportsStarted, mathJax, observeVars>>

\* ------------------------------------------------------------------ markup
\* A markup string is the sequence of its characters.  The two non-ASCII
\* characters the code writes are named by their code points.
DivisionSign == "U+00F7"
MiddleDot == "U+00B7"
Whitespace == {" ", "\t", "\n"}

Dollar == <<"$">>
OpenBracket == <<"\\", "[">>
CloseBracket == <<"\\", "]">>
Times == <<"\\", "t", "i", "m", "e", "s">>
Div == <<"\\", "d", "i", "v">>
Cdot == <<"\\", "c", "d", "o", "t">>
Frac == <<"\\", "f", "r", "a", "c">>

\* s from its i-th character on.
From(s, i) == SubSeq(s, i, Len(s))

\* Length of the match of /\$\$|\\\[|\\\]|\$/ at the start of s, 0 for none.
DelimiterAt(s) ==
  IF StartsWith(s, Dollar \o Dollar) \/ StartsWith(s, OpenBracket) \/ StartsWith(s, CloseBracket)
  THEN 2
  ELSE IF StartsWith(s, Dollar) THEN 1 ELSE 0

\* .replace(/\$\$|\\\[|\\\]|\$/g, '')
RECURSIVE StripDelimiters(_)
StripDelimiters(s) ==
  IF s = << >> THEN << >>
  ELSE IF DelimiterAt(s) > 0 THEN StripDelimiters(From(s, DelimiterAt(s) + 1))
       ELSE <<Head(s)>> \o StripDelimiters(Tail(s))

\* .replace(/pat/g, rep) for a pattern that is a literal, non-empty string:
\* matches are found left to right and do not overlap.
RECURSIVE ReplaceAll(_, _, _)
ReplaceAll(s, pat, rep) ==
  IF s = << >> THEN << >>
  ELSE IF StartsWith(s, pat) THEN rep \o ReplaceAll(From(s, Len(pat) + 1), pat, rep)
       ELSE <<Head(s)>> \o ReplaceAll(Tail(s), pat, rep)

\* \s* from position i of s: the position of the first character that is not
\* whitespace (Len(s) + 1 when there is none).
RECURSIVE SkipSpaces(_, _)
SkipSpaces(s, i) == IF i <= Len(s) /\ s[i] \in Whitespace THEN SkipSpaces(s, i + 1) ELSE i

\* \{([^}]+)\} at position i of s: the position of the closing brace, 0 when
\* there is no match (no opening brace at i, no closing brace after it, or
\* nothing between the two).
GroupEnd(s, i) ==
  LET closes == {k \in (i + 1)..Len(s) : s[k] = "}"}
      k == CHOOSE n \in closes : \A m \in closes : n <= m
  IN IF i <= Len(s) /\ s[i] = "{" /\ closes # {} /\ k > i + 1 THEN k ELSE 0

\* The match of /\\frac\s*\{([^}]+)\}\s*\{([^}]+)\}/ at the start of s: its two
\* groups and its length (0: no match).
FracAt(s) ==
  LET o1 == SkipSpaces(s, Len(Frac) + 1)
      c1 == GroupEnd(s, o1)
      o2 == SkipSpaces(s, c1 + 1)
      c2 == GroupEnd(s, o2)
  IN IF StartsWith(s, Frac) /\ c1 > 0 /\ c2 > 0
     THEN [len |-> c2, a |-> SubSeq(s, o1 + 1, c1 - 1), b |-> SubSeq(s, o2 + 1, c2 - 1)]
     ELSE [len |-> 0, a |-> << >>, b |-> << >>]

\* .replace(/\\frac\s*\{([^}]+)\}\s*\{([^}]+)\}/g, '$1/$2')
RECURSIVE ReplaceFrac(_)
ReplaceFrac(s) ==
  IF s = << >> THEN << >>
  ELSE LET m == FracAt(s)
       IN IF m.len > 0 THEN m.a \o <<"/">> \o m.b \o ReplaceFrac(From(s, m.len + 1))
          ELSE <<Head(s)>> \o ReplaceFrac(Tail(s))

\* .replace(/[{}]/g, '')
IsNotBrace(c) == c \notin {"{", "}"}
\* StripBraces for the opening brace alone: .replace(/[{]/g, '')
IsNotOpeningBrace(c) == c # "{"
StripOpeningBraces(s) == SelectSeq(s, IsNotOpeningBrace)
StripBraces(s) == SelectSeq(s, IsNotBrace)

\* .trim()
RECURSIVE TrimStart(_)
TrimStart(s) == IF s # << >> /\ Head(s) \in Whitespace THEN TrimStart(Tail(s)) ELSE s
RECURSIVE TrimEnd(_)
TrimEnd(s) ==
  IF s # << >> /\ s[Len(s)] \in Whitespace THEN TrimEnd(SubSeq(s, 1, Len(s) - 1)) ELSE s
\* Trim removing every whitespace character: .replace(/\s/g, '')
IsNotSpace(c) == c \notin Whitespace
TrimAll(s) == SelectSeq(s, IsNotSpace)
Trim(s) == TrimEnd(TrimStart(s))

\* ConvertLatexToPlainText with the braces stripped before the fractions are
\* rewritten.
ConvertLatexBracesFirst(s) ==
  IF s = << >> THEN << >>
  ELSE Trim(ReplaceFrac(StripBraces(
         ReplaceAll(ReplaceAll(ReplaceAll(StripDelimiters(s), Times, <<"x">>),
                               Div, <<DivisionSign>>),
                    Cdot, <<MiddleDot>>))))

\* convertLatexToPlainText (the same function in part_002 and in App.tsx).
ConvertLatexToPlainText(s) ==
  IF s = << >> THEN << >>
  ELSE Trim(StripBraces(ReplaceFrac(
         ReplaceAll(ReplaceAll(ReplaceAll(StripDelimiters(s), Times, <<"x">>),
                               Div, <<DivisionSign>>),
                    Cdot, <<MiddleDot>>))))

\* InsertedRow with the plain texts of answer and solution taken from each
\* other's markup.
InsertedRowSwapped(r) ==
  [level |-> r.level, topic |-> r.topic, difficulty |-> r.difficulty,
   problem |-> r.problem, answer |-> r.answer, solution |-> r.solution,
   problem_plain |-> ConvertLatexToPlainText(r.problem),
   answer_plain |-> ConvertLatexToPlainText(r.solution),
   solution_plain |-> ConvertLatexToPlainText(r.answer)]

\* The row saveProblemToDb hands to insert for a record and its classification.
InsertedRow(r) ==
  [level |-> r.level, topic |-> r.topic, difficulty |-> r.difficulty,
   problem |-> r.problem, answer |-> r.answer, solution |-> r.solution,
   problem_plain |-> ConvertLatexToPlainText(r.problem),
   answer_plain |-> ConvertLatexToPlainText(r.answer),
   solution_plain |-> ConvertLatexToPlainText(r.solution)]

\* The fields of the records saved (those of the specification's end-to-end
\* example among them).
Markup2Plus2 == <<"$", "2", "+", "2", "$">>
Markup4 == <<"4">>
MarkupFrac41 == Frac \o <<"{", "4", "}", "{", "1", "}", "=", "4">>
MarkupSpaced == <<" ">> \o Frac \o <<" ", "{", "a", "}", "{", "}", " ">> \o Times \o <<" ">>
MarkupDisplay == OpenBracket \o <<"6">> \o Div \o <<"2", "=", "3">> \o CloseBracket
SampleMarkups == {Markup2Plus2, Markup4, MarkupFrac41, MarkupSpaced, MarkupDisplay, << >>}

\* The strings convertLatexToPlainText is called with: up to MaxLexemes pieces
\* of markup, joined, and the sample fields.
Lexemes ==
  {Dollar, OpenBracket, Times, Cdot, Frac, <<"{">>, <<"}">>, <<"{", "1", "}">>, <<" ">>, <<"a">>}
RECURSIVE Joined(_)
Joined(ls) == IF ls = << >> THEN << >> ELSE Head(ls) \o Joined(Tail(ls))
MarkupInputs ==
  {Joined(ls) : ls \in UNION {[1..n -> Lexemes] : n \in 0..MaxLexemes}} \cup SampleMarkups
Levels == {"elementary", "middle", "high"}
Topics == {"algebra"}
Difficulties == {"concept", "basic"}
Records ==
  [problem : SampleMarkups, answer : SampleMarkups, solution : SampleMarkups,
   level : Levels, topic : Topics, difficulty : Difficulties]

\* A call of convertLatexToPlainText with the string latex.
ConvertCall ==
  /\ panel = "text" /\ record = Null /\ plain = Null
  /\ plain' = Some(ConvertLatexToPlainText(latex))
  /\ UNCHANGED <<panel, latex, record, rows, recordVars, statusVars, supabaseVars, mongoVars,
                 googleVars, exportVars, observeVars>>

\* saveProblemToDb with a client held, up to the await: one insert of one row.
InsertRow ==
  /\ panel = "text" /\ record # Null /\ rows = << >>
  /\ rows' = Append(rows, InsertedRow(Value(record)))
  /\ UNCHANGED <<panel, latex, plain, record, recordVars, statusVars, supabaseVars, mongoVars,
                 googleVars, exportVars, observeVars>>

\* The text functions on their own: one call of convertLatexToPlainText with a
\* string, or one save of a record.
TextInit ==
  /\ panel = "text" /\ mathJax = "typesetPromise"
  /\ AppStart
  /\ plain = Null /\ rows = << >>
  /\ \/ latex \in MarkupInputs /\ record = Null
     \/ latex = << >> /\ record \in {Some(r) : r \in Records}

TextNext == ConvertCall \/ InsertRow

TextSpec == TextInit /\ [][TextNext]_vars

\* ---------------------------------------------------------- specification
Next ==
  \/ \E n \in 1..MaxProblems : GenerateClick(n)
  \/ GenerateDone
  \/ GenerateFail
  \/ \E i \in 0..(MaxProblems - 1) : SelectTab(i)
  \/ \E url \in UrlInputs, key \in KeyInputs : SupabaseConnectClick(url, key)
  \/ \E throws \in BOOLEAN : SupabaseConnectFinish(throws)
  \/ SupabaseDisconnectClick
  \/ HandleSaveToDb
  \/ \E outcome \in DbInsertOutcomes : SaveToDbSettled(outcome)
  \/ SaveProblemToDbCall
  \/ \E url \in MongoUrlInputs : MongoDbConnectClick(url)
  \/ MongoDbConnectFinish
  \/ MongoDbDisconnectClick
  \/ HandleSaveToMongo
  \/ \E outcome \in FetchOutcomes : SaveToMongoSettled(outcome)
  \/ SaveProblemToMongoDbCall
  \/ \E clientId \in ClientIdInputs : GoogleConnectClick(clientId)
  \/ GoogleLibsLoaded
  \/ GoogleInitOk
  \/ GoogleInitFail
  \/ ConsentGranted
  \/ ConsentDenied
  \/ \E type \in ConsentErrorTypes : ConsentError(type)
  \/ OnSignoutClick
  \/ RevokeDone
  \/ HandleSignoutCall
  \/ HandleSaveToDrive
  \/ \E outcome \in UploadOutcomes : SaveToDriveSettled(outcome)
  \/ SaveProblemToDriveCall
  \/ DownloadClick
  \/ DownloadAsWordEmpty
  \/ \E packagingThrows \in BOOLEAN : TypesetResolved(packagingThrows)
  \/ TypesetRejected
  \/ \E packagingThrows \in BOOLEAN : DelayElapsed(packagingThrows)

Spec == Init /\ [][Next]_vars

\* Every awaited promise settles and every timer and callback of a request
\* that was issued fires; a consent popup may stay open for ever.
Settling ==
  /\ WF_vars(GenerateDone \/ GenerateFail)
  /\ WF_vars(\E throws \in BOOLEAN : SupabaseConnectFinish(throws))
  /\ WF_vars(\E outcome \in DbInsertOutcomes : SaveToDbSettled(outcome))
  /\ WF_vars(MongoDbConnectFinish)
  /\ WF_vars(\E outcome \in FetchOutcomes : SaveToMongoSettled(outcome))
  /\ WF_vars(GoogleLibsLoaded)
  /\ WF_vars(GoogleInitOk \/ GoogleInitFail)
  /\ WF_vars(RevokeDone)
  /\ WF_vars(\E outcome \in UploadOutcomes : SaveToDriveSettled(outcome))
  /\ WF_vars((\E packagingThrows \in BOOLEAN : TypesetResolved(packagingThrows)) \/ TypesetRejected)
  /\ WF_vars(\E packagingThrows \in BOOLEAN : DelayElapsed(packagingThrows))

\* The page on its own: the handlers App() binds to its buttons and the
\* settling of what they await, without direct calls of the service functions
\* by another importer.
PageNext ==
  \/ \E n \in 1..MaxProblems : GenerateClick(n)
  \/ GenerateDone
  \/ GenerateFail
  \/ \E i \in 0..(MaxProblems - 1) : SelectTab(i)
  \/ \E url \in UrlInputs, key \in KeyInputs : SupabaseConnectClick(url, key)
  \/ \E throws \in BOOLEAN : SupabaseConnectFinish(throws)
  \/ SupabaseDisconnectClick
  \/ HandleSaveToDb
  \/ \E outcome \in DbInsertOutcomes : SaveToDbSettled(outcome)
  \/ \E url \in MongoUrlInputs : MongoDbConnectClick(url)
  \/ MongoDbConnectFinish
  \/ MongoDbDisconnectClick
  \/ HandleSaveToMongo
  \/ \E outcome \in FetchOutcomes : SaveToMongoSettled(outcome)
  \/ \E clientId \in ClientIdInputs : GoogleConnectClick(clientId)
  \/ GoogleLibsLoaded
  \/ GoogleInitOk
  \/ GoogleInitFail
  \/ ConsentGranted
  \/ ConsentDenied
  \/ \E type \in ConsentErrorTypes : ConsentError(type)
  \/ OnSignoutClick
  \/ RevokeDone
  \/ HandleSaveToDrive
  \/ \E outcome \in UploadOutcomes : SaveToDriveSettled(outcome)
  \/ DownloadClick
  \/ \E packagingThrows \in BOOLEAN : TypesetResolved(packagingThrows)
  \/ TypesetRejected
  \/ \E packagingThrows \in BOOLEAN : DelayElapsed(packagingThrows)

\* The page with one of its panels in use.
PageInit == Init /\ panel # "dispatch"

FairSpec == PageInit /\ [][PageNext]_vars /\ Settling

\* ------------------------------------------------- views used by the claims
\* The caller-visible connection state of a backend.
Connected(b) ==
  CASE b = "supabase" -> isSupabaseConnected
    [] b = "google" -> isGoogleLoggedIn
    [] b = "mongo" -> isMongoDbConnected

Connecting(b) ==
  CASE b = "supabase" -> isSupabaseConnecting
    [] b = "google" -> isGoogleConnecting
    [] b = "mongo" -> isMongoDbConnecting

\* The session handle the service module of a backend holds.
HoldsHandle(b) ==
  CASE b = "supabase" -> supabase # Null
    [] b = "google" -> token # "null"
    [] b = "mongo" -> backendUrl # Null

ConnectError(b) ==
  CASE b = "supabase" -> supabaseError
    [] b = "google" -> googleAuthError
    [] b = "mongo" -> mongoDbError

Disconnected(b) == ~Connected(b) /\ ~Connecting(b) /\ ~HoldsHandle(b)

SaveFns == {"saveProblemToDb", "saveProblemToDrive", "saveProblemToMongoDb"}

NotConnectedError(fn) ==
  CASE fn = "saveProblemToDb" -> ErrSupabaseNotInit
    [] fn = "saveProblemToDrive" -> ErrDriveNotLoggedIn
    [] fn = "saveProblemToMongoDb" -> ErrMongoNotInit

\* A consent flow delivered its outcome in this step.
ConsentDelivered == pendingConsent' = pendingConsent - 1

\* ------------------------------------------------------------------ claims
\* C1: every export run that appended its hidden render container has removed
\* it again when the run has ended, also when typesetPromise rejected: with no
\* run in progress, no render container is attached.
C1_ContainerReleased == exportRun = "idle" => renderDivs = 0

\* C2: after a disconnect of a backend, and until its next successful connect,
\* the service holds no session handle for it (supabase client, Google token,
\* backendUrl).
C2_DisconnectInvalidatesHandle ==
  \A b \in Backends : lastChange[b] = "disconnected" => ~HoldsHandle(b)

\* C3: a save function called while its backend is not connected throws its
\* not-connected error and issues no network write.
C3_SaveWithoutSessionFails ==
  (call.fn \in SaveFns /\ ~call.connected)
    => (call.threw = NotConnectedError(call.fn) /\ call.requests = 0)

\* C4: a finished connect attempt whose credentials were empty or malformed
\* made no network call, left the backend not connected and reported an error.
C4_MalformedConnectRefused ==
  \A b \in Backends :
    (attempt[b].made /\ ~attempt[b].wellFormed /\ ~Connecting(b))
      => (~attempt[b].network /\ ~Connected(b) /\ ConnectError(b) # NoError)

\* C5: a connect attempt of a backend starts only while that backend is
\* Disconnected: not while it is connected, and not while the consent popup of
\* an earlier connect attempt is still pending.
C5_ConnectOnlyFromDisconnected ==
  [][\A b \in Backends :
       (~Connecting(b) /\ Connecting(b)')
         => (~Connected(b) /\ (b = "google" => pendingConsent = 0))]_vars

\* C6: the connecting phase of a Google Drive connect does not end while the
\* consent flow it started is still pending.
C6_ConnectWaitsForConsent == pendingConsent > 0 => isGoogleConnecting

\* C7: when a consent flow ends with an origin mismatch or another
\* authentication error, the error is surfaced to the caller (googleAuthError
\* is set to its message) and no session is obtained.
C7_ConsentErrorSurfaced ==
  [][(ConsentDelivered /\ consentOutcome' \in {"origin_mismatch", "other"})
       => (googleAuthError' = ErrorCallbackMessage(consentOutcome') /\ token' = token)]_vars

\* C8: when the user closes the consent popup (or it fails to open), nothing
\* happens: no token is obtained, no error is surfaced, and the backend's
\* connected flag is what it was, so a backend that was not connected is still
\* observed as not connected.
C8_PopupDismissedIsNoOp ==
  [][(ConsentDelivered /\ consentOutcome' \in {"popup_closed", "popup_failed_to_open"})
       => /\ token' = token
          /\ isGoogleLoggedIn' = isGoogleLoggedIn
          /\ googleAuthError' = googleAuthError
          /\ UNCHANGED <<statusVars, isGoogleAuthReady, isGoogleConnecting, googleConnect>>]_vars

\* C8 witness: a popup was closed during a connect from Disconnected; there is
\* no token, no error, and the backend is not connected.
C8_Witness ==
  /\ consentOutcome = "popup_closed" /\ pendingConsent = 0 /\ googleConnect = "idle"
  /\ attempt["google"].made
  /\ token = "null" /\ ~isGoogleLoggedIn /\ googleAuthError = NoError

\* A disconnect of backend b is issued in this step.
DisconnectIssued(b) ==
  CASE b = "supabase" -> SupabaseDisconnectClick
    [] b = "google" -> OnSignoutClick \/ HandleSignoutCall
    [] b = "mongo" -> MongoDbDisconnectClick

\* C9: a disconnect issued while the backend is Disconnected changes nothing:
\* the backend stays Disconnected, no handle appears, no remote call is made.
C9_DisconnectIdempotent ==
  [][\A b \in Backends :
       (Disconnected(b) /\ DisconnectIssued(b))
         => /\ Disconnected(b)'
            /\ UNCHANGED <<supabaseConnVars, mongoConnVars, googleConnVars>>
            /\ call'.requests = 0]_vars

\* C9 witness: handleSignoutClick was called while Google Drive was
\* Disconnected, after an earlier disconnect had completed.
C9_Witness ==
  /\ call.fn = "handleSignoutClick" /\ ~call.connected /\ ~call.held
  /\ lastChange["google"] = "disconnected" /\ Disconnected("google")
  /\ pendingRevoke = 0

\* C10: every save call made with a live session has issued exactly one
\* network write, also after the write has failed.
C10_ExactlyOneWrite ==
  /\ dbSave.pc # "idle" => dbSave.writes = 1
  /\ driveSave.pc # "idle" => driveSave.writes = 1
  /\ mongoSave.pc # "idle" => mongoSave.writes = 1
  /\ (call.fn \in SaveFns /\ call.connected) => call.requests = 1

\* C10 witness: a save whose write failed has returned, after one write.
C10_Witness ==
  /\ mongoSave.pc = "returned" /\ mongoDbSaveError = ErrCannotReachBackend
  /\ mongoSave.writes = 1

\* A write that failed by a transport error or a server-side rejection.
DbWriteFailed(outcome) == outcome.error # Null
UploadFailed(outcome) == outcome.rejects \/ outcome.status < 200 \/ outcome.status > 299
FetchFailed(outcome) == outcome.rejects \/ outcome.status < 200 \/ outcome.status > 299

\* The save handler whose run is `run` returns in this step.
Settles(run) == run.pc = "awaiting" /\ run'.pc = "returned"

\* C11: when a save returns whose write failed by a transport error or a
\* server-side rejection, the status of its backend has the error set (the
\* cause message) and the success flag not set.
C11_FailedSaveReported ==
  [][/\ (Settles(dbSave) /\ DbWriteFailed(Value(dbSave'.outcome)))
          => (saveError' # NoError /\ ~saveSuccess')
     /\ (Settles(driveSave) /\ UploadFailed(Value(driveSave'.outcome)))
          => (driveSaveError' # NoError /\ ~driveSaveSuccess')
     /\ (Settles(mongoSave) /\ FetchFailed(Value(mongoSave'.outcome)))
          => (mongoDbSaveError' # NoError /\ ~mongoDbSaveSuccess')]_vars

\* C11 witness: a Drive save whose upload was answered 403 has returned with
\* the error set and the success flag not set.
C11_Witness ==
  /\ driveSave.pc = "returned" /\ driveSave.outcome = Some(UploadResponse(403))
  /\ driveSaveError # NoError /\ ~driveSaveSuccess


\* C12: when a save returns, also while a save to another backend is in flight,
\* its reported outcome is that of its own write (a failed write is reported as an
\* error, success only for a write that did not fail), and the statuses, save
\* runs and sessions of the other two backends are left as they are.
C12_ConcurrentSavesIndependent ==
  [][/\ Settles(dbSave)
          => /\ DbWriteFailed(Value(dbSave'.outcome)) => (saveError' # NoError /\ ~saveSuccess')
             /\ saveSuccess' => ~DbWriteFailed(Value(dbSave'.outcome))
             /\ UNCHANGED <<driveSaveSuccess, driveSaveError, mongoDbSaveSuccess,
                            mongoDbSaveError, googleVars, mongoVars, supabaseConnVars>>
     /\ Settles(driveSave)
          => /\ UploadFailed(Value(driveSave'.outcome))
                  => (driveSaveError' # NoError /\ ~driveSaveSuccess')
             /\ driveSaveSuccess' => ~UploadFailed(Value(driveSave'.outcome))
             /\ UNCHANGED <<saveSuccess, saveError, mongoDbSaveSuccess, mongoDbSaveError,
                            supabaseVars, mongoVars, googleConnVars>>
     /\ Settles(mongoSave)
          => /\ FetchFailed(Value(mongoSave'.outcome))
                  => (mongoDbSaveError' # NoError /\ ~mongoDbSaveSuccess')
             /\ mongoDbSaveSuccess' => ~FetchFailed(Value(mongoSave'.outcome))
             /\ UNCHANGED <<saveSuccess, saveError, driveSaveSuccess, driveSaveError,
                            supabaseVars, googleVars, mongoConnVars>>]_vars

\* C12 witness: a Supabase save and a MongoDB save were in flight together; the
\* MongoDB one returned first and failed, the Supabase one returned after it and
\* succeeded, and each status shows its own outcome.
C12_Witness ==
  /\ mongoSave.pc = "returned" /\ mongoSave.overlap
  /\ FetchFailed(Value(mongoSave.outcome))
  /\ mongoDbSaveError # NoError /\ ~mongoDbSaveSuccess
  /\ dbSave.pc = "returned" /\ ~dbSave.overlap /\ dbSave.outcome = Some([error |-> Null])
  /\ saveSuccess /\ saveError = NoError
  /\ isSupabaseConnected /\ isMongoDbConnected


\* C13: a call of the export with an empty record list ends with a document
\* produced (the envelope with no record fragments) and no error.
C13_EmptyExportGivesDocument ==
  (exportCall.records = 0 /\ exportCall.outcome \notin {"none", "running"})
    => (exportCall.outcome = "downloaded" /\ error = NoError)

\* C14: an export run that fails (the typesetting rejects or the packaging
\* throws) triggers no download and reports the export error, and a download is
\* triggered only by the step that ends a run whose typesetting wait completed
\* and whose packaging did not throw, once.
C14_ExportAllOrNothing ==
  [][/\ (exportCall.outcome = "running" /\ exportCall'.outcome = "failed")
          => (downloads' = downloads /\ error' = ErrWord)
     /\ downloads' # downloads
          => /\ exportCall.outcome = "running" /\ exportRun \in {"typesetting", "delay"}
             /\ exportCall'.outcome = "downloaded" /\ downloads' = downloads + 1
             /\ error' = error]_vars

\* C14 witness: the only export run so far failed; nothing was downloaded and
\* the export error is shown.
C14_Witness ==
  /\ exportsStarted = 1 /\ exportCall.outcome = "failed" /\ exportCall.records > 0
  /\ downloads = 0 /\ error = ErrWord


\* C15: a document-store save of a record has inserted exactly one row; the row
\* holds the record's three markup fields unchanged, the three plain-text
\* fields, each the normalized text of the markup field it belongs to, and the
\* level, topic and difficulty the caller passed.
C15_RowContents ==
  (record # Null /\ rows # << >>)
    => LET r == Value(record)
           row == rows[1]
       IN /\ Len(rows) = 1
          /\ row.problem = r.problem /\ row.answer = r.answer /\ row.solution = r.solution
          /\ row.problem_plain = ConvertLatexToPlainText(r.problem)
          /\ row.answer_plain = ConvertLatexToPlainText(r.answer)
          /\ row.solution_plain = ConvertLatexToPlainText(r.solution)
          /\ row.level = r.level /\ row.topic = r.topic /\ row.difficulty = r.difficulty
          /\ DOMAIN row = {"level", "topic", "difficulty", "problem", "answer", "solution",
                           "problem_plain", "answer_plain", "solution_plain"}

\* C15 witness: the record "$2+2$" / "4" / "\frac{4}{1}=4" of the middle level
\* was saved; the row's answer_plain is "4" and its solution_plain "4/1=4".
C15_Witness ==
  /\ record = Some([problem |-> Markup2Plus2, answer |-> Markup4, solution |-> MarkupFrac41,
                    level |-> "middle", topic |-> "algebra", difficulty |-> "basic"])
  /\ Len(rows) = 1
  /\ rows[1].problem_plain = <<"2", "+", "2">>
  /\ rows[1].answer_plain = <<"4">>
  /\ rows[1].solution_plain = <<"4", "/", "1", "=", "4">>


\* tok occurs in s.
Contains(s, tok) == \E i \in 1..Len(s) : StartsWith(From(s, i), tok)

\* s contains none of $ { } \times \div \cdot \frac.
NoMarkupToken(s) == \A tok \in {Dollar, <<"{">>, <<"}">>, Times, Div, Cdot, Frac} : ~Contains(s, tok)

\* C16 as stated: the normalized text of the empty string is the empty string,
\* and of a string containing none of $ { } \times \div \cdot \frac it is the
\* string itself.
C16_NoTokenUnchanged ==
  (plain # Null /\ NoMarkupToken(latex)) => Value(plain) = latex

\* C16 as amended: the normalized text of the empty string is the empty string,
\* and of a string that contains none of $ \[ \] { } \times \div \cdot \frac and
\* neither begins nor ends with whitespace it is the string itself.
C16_PlainTextUnchanged ==
  (/\ plain # Null /\ NoMarkupToken(latex)
   /\ ~Contains(latex, OpenBracket) /\ ~Contains(latex, CloseBracket)
   /\ (latex # << >> => (Head(latex) \notin Whitespace /\ latex[Len(latex)] \notin Whitespace)))
    => Value(plain) = latex

\* C16 witness: the plain text "a a", with whitespace inside, was normalized to
\* itself.
C16_Witness ==
  /\ latex = <<"a", " ", "a">> /\ plain = Some(<<"a", " ", "a">>)


\* Step 5 as a statement about positions.  An occurrence at the start of s is
\* \frac, then { at j, a non-empty run without } up to the } at k, then { at l,
\* a non-empty run without } up to the } at n; with `spaced`, whitespace may
\* stand before each {, without it each { must follow directly.
OpensAt(s, from, spaced) ==
  {j \in from..Len(s) : /\ s[j] = "{"
                        /\ \A m \in from..(j - 1) : s[m] \in Whitespace
                        /\ (spaced \/ j = from)}
ClosesAfter(s, open) ==
  {k \in (open + 2)..Len(s) : s[k] = "}" /\ \A m \in (open + 1)..(k - 1) : s[m] # "}"}
FracOccurrences(s, spaced) ==
  IF ~StartsWith(s, Frac) THEN {}
  ELSE UNION {UNION {UNION {{<<j, k, l, n>> : n \in ClosesAfter(s, l)}
                            : l \in OpensAt(s, k + 1, spaced)}
                     : k \in ClosesAfter(s, j)}
              : j \in OpensAt(s, Len(Frac) + 1, spaced)}

\* Every occurrence, left to right, rewritten to A/B.
RECURSIVE RewriteFractions(_, _)
RewriteFractions(s, spaced) ==
  IF s = << >> THEN << >>
  ELSE IF FracOccurrences(s, spaced) # {}
       THEN LET q == CHOOSE q \in FracOccurrences(s, spaced) : TRUE
            IN SubSeq(s, q[1] + 1, q[2] - 1) \o <<"/">> \o SubSeq(s, q[3] + 1, q[4] - 1)
                 \o RewriteFractions(From(s, q[4] + 1), spaced)
       ELSE <<Head(s)>> \o RewriteFractions(Tail(s), spaced)

\* The seven rewrite steps in their fixed order.
SevenSteps(s, spaced) ==
  Trim(StripBraces(RewriteFractions(
    ReplaceAll(ReplaceAll(ReplaceAll(StripDelimiters(s), Times, <<"x">>),
                          Div, <<DivisionSign>>),
               Cdot, <<MiddleDot>>),
    spaced)))

\* C17 as stated: the normalized text of every string is the result of the
\* seven steps in their order, step 5 rewriting every \frac{A}{B} with A and B
\* runs of characters other than } to A/B.
C17_SevenStepsAsStated == plain # Null => Value(plain) = SevenSteps(latex, FALSE)

\* C17 as amended: the normalized text of every string is the result of the
\* seven steps in their order, step 5 rewriting every \frac, optional
\* whitespace, {A}, optional whitespace, {B} with A and B non-empty runs of
\* characters other than } to A/B.
C17_SevenStepsSpaced == plain # Null => Value(plain) = SevenSteps(latex, TRUE)

\* C17 witness: "\frac {1}{1}", with whitespace before the first group, was
\* normalized to "1/1".
C17_Witness ==
  /\ latex = Frac \o <<" ", "{", "1", "}", "{", "1", "}">>
  /\ plain = Some(<<"1", "/", "1">>)


\* C18: when the insert of a Supabase save returns an error, the save fails and
\* the message reported to the caller has the backend's own message in it,
\* unchanged.
C18_BackendMessageVerbatim ==
  [][(Settles(dbSave) /\ Value(dbSave'.outcome).error # Null)
       => /\ ~saveSuccess'
          /\ \E i \in DOMAIN saveError' : saveError'[i] = Value(Value(dbSave'.outcome).error)]_vars

\* C18 witness: an insert was rejected for a duplicate key; the save error shown
\* ends with that message.
C18_Witness ==
  /\ dbSave.pc = "returned"
  /\ dbSave.outcome = Some([error |-> Some("duplicate key value violates unique constraint")])
  /\ saveError = <<"db-save-failed: ", "duplicate key value violates unique constraint">>
  /\ ~saveSuccess


\* C19: a Drive save made with a held token succeeds exactly when its upload
\* is answered with a success (2xx) status: every such response ends the save
\* with the success flag set and no error, every other outcome with the error
\* set and the success flag not set.
C19_DriveSuccessIffSuccessStatus ==
  [][Settles(driveSave)
       => IF UploadFailed(Value(driveSave'.outcome))
          THEN driveSaveError' # NoError /\ ~driveSaveSuccess'
          ELSE driveSaveSuccess' /\ driveSaveError' = NoError]_vars


\* C20: when the relay backend answers a save with a non-success status, the
\* error reported is the fixed text followed by the message field of the body,
\* if the body is a JSON object with a (non-empty) message, and followed by the
\* status line (status code and status text) otherwise.
C20_RelayErrorMessage ==
  [][(Settles(mongoSave) /\ ~Value(mongoSave'.outcome).rejects
        /\ FetchFailed(Value(mongoSave'.outcome)))
       => LET r == Value(mongoSave'.outcome)
          IN /\ mongoDbSaveError' # NoError
             /\ Tail(mongoDbSaveError') =
                  IF r.body.json /\ r.body.object /\ r.body.message \notin {Null, Some("")}
                  THEN <<Value(r.body.message)>>
                  ELSE <<"server-error: ", ToString(r.status), " ", r.statusText>>]_vars

\* C20 witness: a relay save was answered 500 with the body
\* {"message": "quota exceeded"} and reported that message.
C20_Witness ==
  /\ mongoSave.pc = "returned"
  /\ mongoSave.outcome = Some(HttpResponse(500, "Internal Server Error", BodyJsonMessage))
  /\ mongoDbSaveError = <<"mongo-save-failed: ", "quota exceeded">>


\* C21: when a relay save returns whose fetch was rejected (no HTTP response),
\* the error reported is not one reported for a response with a non-success
\* status (it does not begin with that error's fixed text); and when it returns
\* after a response with a non-success status, the error reported is the one
\* with that fixed text, never the cannot-reach error or a rejection's message.
C21_NetworkFailureDistinct ==
  [][Settles(mongoSave)
       => LET r == Value(mongoSave'.outcome)
          IN /\ r.rejects
                  => /\ mongoDbSaveError' # NoError /\ ~mongoDbSaveSuccess'
                     /\ Head(mongoDbSaveError') # "mongo-save-failed: "
             /\ (~r.rejects /\ FetchFailed(r))
                  => /\ Head(mongoDbSaveError') = "mongo-save-failed: "
                     /\ mongoDbSaveError' # ErrCannotReachBackend
                     /\ \A m \in TypeErrorMessages : mongoDbSaveError' # <<m>>]_vars

\* C21 witness: a relay save's fetch was rejected with a TypeError whose message
\* has no "fetch" in it; the save reported that message, which is not the error
\* of a rejected response.
C21_Witness ==
  /\ mongoSave.pc = "returned"
  /\ mongoSave.outcome = Some(FetchRejection("Load failed"))
  /\ mongoDbSaveError = <<"Load failed">> /\ ~mongoDbSaveSuccess


\* base with path appended to it, one slash between the two.
Appended(base, path) ==
  IF base[Len(base)] = "/" THEN base \o path ELSE base \o <<"/">> \o path

\* C22: a relay save that issues its fetch issues it to the base URL held by
\* the service with api/problems appended to it, also for a base URL with a path
\* prefix, with or without a trailing slash.
C22_EndpointIsBasePlusPath ==
  [][(mongoSave.pc # "awaiting" /\ mongoSave'.pc = "awaiting")
       => endpoint' = Some(Appended(Value(backendUrl), ApiProblems))]_vars


\* C23: a Google Drive disconnect issued while connected requests the
\* revocation of the held token and leaves the token and the connected flag as
\* they are; the token is cleared only by the callback of a revocation that was
\* requested, which also reports the backend as not connected; and a requested
\* revocation leads to a state with no token held and the backend not connected.
C23_RevokeThenClear ==
  /\ [][/\ (OnSignoutClick /\ isGoogleLoggedIn)
             => /\ pendingRevoke' = pendingRevoke + 1
                /\ token' = token /\ isGoogleLoggedIn' = isGoogleLoggedIn
        /\ (token # "null" /\ token' = "null")
             => /\ pendingRevoke > 0 /\ pendingRevoke' = pendingRevoke - 1
                /\ ~isGoogleLoggedIn']_vars
  /\ (pendingRevoke > 0) ~> (token = "null" /\ ~isGoogleLoggedIn)

\* C23 witness: the sign-out button was pressed while connected and the revoke
\* callback has run: no token is held and the backend is not connected.
C23_Witness ==
  /\ lastChange["google"] = "disconnected" /\ call.fn = "none"
  /\ pendingRevoke = 0 /\ token = "null" /\ ~isGoogleLoggedIn /\ ~isGoogleAuthReady
  /\ consentOutcome = "granted"


\* C24: the step of an export run that captures the container's content (and
\* removes the container) is taken by the run in progress after its render
\* step: with typesetPromise offered, when that promise, awaited for the run's
\* container, has resolved; otherwise when the 2 s fallback timer has fired.  No
\* other step captures.
C24_CaptureAfterRender ==
  [][renderDivs' = renderDivs - 1
       => /\ exportCall.outcome = "running" /\ isDownloading
          /\ mathJax = "typesetPromise" => exportRun = "typesetting"
          /\ mathJax # "typesetPromise" => exportRun = "delay"
          /\ exportRun' = "idle"]_vars

\* C24 witness: with only the fire-and-forget typeset offered, an export run has
\* captured the content after the fallback delay and downloaded the document.
C24_Witness ==
  /\ mathJax = "typeset" /\ exportsStarted = 1 /\ exportRun = "idle"
  /\ exportCall.outcome = "downloaded" /\ downloads = 1 /\ renderDivs = 0


\* The connection state and the session handle of each backend.
SupabaseSession == <<isSupabaseConnected, supabase>>
GoogleSession == <<isGoogleLoggedIn, token>>
MongoSession == <<isMongoDbConnected, backendUrl>>

\* A step of a backend's connect or disconnect operation.
SupabaseConnectOrDisconnect ==
  \/ \E url \in UrlInputs, key \in KeyInputs : SupabaseConnectClick(url, key)
  \/ \E throws \in BOOLEAN : SupabaseConnectFinish(throws)
  \/ SupabaseDisconnectClick
GoogleConnectOrDisconnect ==
  \/ \E clientId \in ClientIdInputs : GoogleConnectClick(clientId)
  \/ GoogleLibsLoaded \/ GoogleInitOk \/ GoogleInitFail
  \/ ConsentGranted \/ ConsentDenied \/ \E type \in ConsentErrorTypes : ConsentError(type)
  \/ OnSignoutClick \/ RevokeDone \/ HandleSignoutCall
MongoConnectOrDisconnect ==
  \/ \E url \in MongoUrlInputs : MongoDbConnectClick(url)
  \/ MongoDbConnectFinish
  \/ MongoDbDisconnectClick

\* A step of a save, of an export or of a generation.
SaveExportOrGenerateStep ==
  \/ dbSave' # dbSave \/ driveSave' # driveSave \/ mongoSave' # mongoSave
  \/ (call' # call /\ call'.fn \in SaveFns)
  \/ exportCall' # exportCall \/ exportRun' # exportRun
  \/ isLoading' # isLoading \/ generating' # generating

C26_FlagIffHandle == \A b \in Backends : Connected(b) <=> HoldsHandle(b)


\* C27: when a save returns whose record stopped being the active record while
\* it was in flight (another tab was selected, or the list was regenerated), it
\* leaves the success flag and the error of its backend as they are: they belong
\* to the record that is active now.
C27_StaleSaveNotShown ==
  [][/\ (Settles(dbSave) /\ dbSave.stale) => UNCHANGED <<saveSuccess, saveError>>
     /\ (Settles(driveSave) /\ driveSave.stale) => UNCHANGED <<driveSaveSuccess, driveSaveError>>
     /\ (Settles(mongoSave) /\ mongoSave.stale)
          => UNCHANGED <<mongoDbSaveSuccess, mongoDbSaveError>>]_vars


\* C28: with every awaited promise settling, no in-progress flag stays set for
\* ever: each of isSupabaseConnecting, isGoogleConnecting, isMongoDbConnecting,
\* isSaving, isSavingToDrive, isSavingToMongo, isDownloading and isLoading is
\* cleared again after every time it was set, whether the operation succeeded or
\* failed.
C28_FlagsCleared ==
  /\ []<>(~isSupabaseConnecting) /\ []<>(~isGoogleConnecting) /\ []<>(~isMongoDbConnecting)
  /\ []<>(~isSaving) /\ []<>(~isSavingToDrive) /\ []<>(~isSavingToMongo)
  /\ []<>(~isDownloading) /\ []<>(~isLoading)

\* C28 witness: a generation has failed and a connect attempt has been refused,
\* and neither has left its flag set.
C28_Witness ==
  /\ error = ErrGenerate /\ generating = 0 /\ ~isLoading
  /\ mongoDbError = ErrEnterValidUrl /\ mongoConnect = Null /\ ~isMongoDbConnecting


\* C29: a generation that starts empties the record list and clears every save
\* status; while it runs the list stays empty; and when it ends, either the list
\* holds exactly the number of records asked for, with the first one active, or
\* (a generation call failed) the list is empty and the generation error is
\* shown.  The number asked for is within the range of the input.
C29_GenerationAllOrNothing ==
  [][/\ (~isLoading /\ isLoading')
          => /\ problems' = 0 /\ generating' \in 1..MaxProblems
             /\ ~saveSuccess' /\ saveError' = NoError
             /\ ~driveSaveSuccess' /\ driveSaveError' = NoError
             /\ ~mongoDbSaveSuccess' /\ mongoDbSaveError' = NoError
     /\ isLoading' => problems' = 0
     /\ (isLoading /\ ~isLoading')
          => \/ problems' = generating /\ activeProblemIndex' = 0 /\ error' = error
             \/ problems' = 0 /\ error' = ErrGenerate]_vars

\* C29 witness: a record was saved, then a batch of two was generated: the list
\* holds two records, the first one is active, and the save status of the
\* earlier record is cleared.
C29_Witness ==
  /\ problems = 2 /\ activeProblemIndex = 0 /\ ~isLoading /\ generating = 0
  /\ error = NoError
  /\ dbSave.pc = "returned" /\ dbSave.outcome = Some([error |-> Null]) /\ ~saveSuccess


\* C30: the normalized text of every string holds no $, { or } and neither
\* begins nor ends with whitespace.
C30_PlainTextClean ==
  plain # Null
    => LET t == Value(plain)
       IN /\ \A i \in 1..Len(t) : t[i] \notin {"$", "{", "}"}
          /\ t # << >> => (t[1] \notin Whitespace /\ t[Len(t)] \notin Whitespace)

\* C30 witness: "{ a}" was normalized to "a": the braces are gone, and so is
\* the whitespace their removal left at the start.
C30_Witness ==
  /\ latex = <<"{", " ", "a", "}">> /\ plain = Some(<<"a">>)

====
